---- MODULE Spec2Model ----
(***************************************************************************)
(* A model of the Mercari shopping agent: the product ranker               *)
(* analyze_products (src/tools.py), the search pipeline that feeds it      *)
(* (src/tools.py search_mercari, src/mercari_scraper.py MercariScraper),   *)
(* and the agentic loop that calls the tools (src/agent.py).               *)
(*                                                                         *)
(* Spec runs a search followed by an analysis, SpecSession any sequence    *)
(* of calls on the module-level scraper, SpecExtract the extractor on a    *)
(* page, SpecThreads the driver statements of concurrent calls, and        *)
(* SpecAgent the chat calls of an interactive session.                     *)
(*                                                                         *)
(* Python values are modelled as follows.  A dict is a function whose      *)
(* DOMAIN is the set of its keys, so that dict.get(k, default) and the     *)
(* truthiness tests of the code can be written as the code writes them.    *)
(* An Optional argument is a sequence of length at most one (<<>> is       *)
(* None).  A list is a sequence.  A text the code inspects character by    *)
(* character (a condition label, a price text) is a sequence of            *)
(* one-character strings.  A float score is the exact rational             *)
(* [num, den] it stands for; within the price range of the model the       *)
(* float comparisons of the code agree with the exact ones.                *)
(***************************************************************************)
EXTENDS Integers, Sequences, FiniteSets, TLC

VARIABLES
    pc,                 \* position of the tool sequence: "search", "analyze", "done"
    search_args,        \* Optional kwargs of the search_mercari call
    driver,             \* scraper.driver: "None" or "live"
    url_params,         \* the query parameters of the last search request
    products,           \* the products argument of analyze_products
    user_preferences,   \* the Optional user_preferences argument
    scored_products,    \* analyze_products' local list, after its sort
    last_tool,          \* the tool execute_tool ran last
    result,             \* what that tool returned
    soup,               \* the parsed page handed to _extract_products
    limit,              \* the max_results handed to _extract_products
    page_url,           \* the url the driver was last sent to and reached
    navigated,          \* whether the last call got as far as driver.get
    history,            \* what went wrong in the last two calls, the older first
    threads,            \* the scraper calls running concurrently, each with its position
    drivers_created,    \* how many Chrome drivers the concurrent calls have started
    conversation_history,   \* agent.conversation_history
    loop,               \* the locals of _agentic_loop, kept when it ends until main goes on
    chat_result,        \* how the chat call ended: what it returned, or that it raised
    turns               \* how many chat calls were made

\* The variables of the tool sequence, those of the extractor and those of
\* the scraper's driver
tool_vars == <<pc, search_args, driver, url_params, products, user_preferences,
               scored_products, last_tool, result>>
extract_vars == <<soup, limit>>
driver_vars == <<page_url, navigated, history>>
thread_vars == <<threads, drivers_created>>
agent_vars == <<conversation_history, loop, chat_result, turns>>

vars == <<tool_vars, extract_vars, driver_vars, thread_vars, agent_vars>>

-----------------------------------------------------------------------------
(* Python helpers *)

\* dict.get(k, default)
Get(d, k, default) == IF k \in DOMAIN d THEN d[k] ELSE default

\* The None that a string-valued slot can hold (img.get('alt') without alt).
NoneStr == "<None>"

\* bool(d.get(k)) for a string-valued key
TruthyStr(d, k) == k \in DOMAIN d /\ d[k] # "" /\ d[k] # NoneStr

\* bool(d.get(k)) for an integer-valued key
TruthyInt(d, k) == k \in DOMAIN d /\ d[k] # 0

EmptyDict == [k \in {} |-> 0]

\* str.lower() on one character (the ASCII letters the labels use)
LowerMap ==
    [c \in {"A", "B", "D", "E", "G", "N", "O", "S", "U", "W"} |->
        CASE c = "A" -> "a" [] c = "B" -> "b" [] c = "D" -> "d" [] c = "E" -> "e"
          [] c = "G" -> "g" [] c = "N" -> "n" [] c = "O" -> "o" [] c = "S" -> "s"
          [] c = "U" -> "u" [] c = "W" -> "w"]

LowerChar(c) == IF c \in DOMAIN LowerMap THEN LowerMap[c] ELSE c

\* The list a comprehension builds, element by element (a function
\* constructor of TLC is evaluated anew at each application; the SubSeq
\* makes it a tuple of values)
List(f) == SubSeq(f, 1, Len(f))

\* str.lower()
Lower(s) == List([i \in 1..Len(s) |-> LowerChar(s[i])])

\* sub in s
Contains(s, sub) ==
    \E i \in 1..(Len(s) - Len(sub) + 1) :
        \A j \in 1..Len(sub) : s[i + j - 1] = sub[j]

\* exact rationals for float scores
\* in lowest terms, which keeps the products of the comparisons small
RECURSIVE Gcd(_, _)
Gcd(a, b) == IF b = 0 THEN a ELSE Gcd(b, a % b)
Rat(n, d) == [num |-> n \div Gcd(n, d), den |-> d \div Gcd(n, d)]
RatGeq(a, b) == a.num * b.den >= b.num * a.den
RatEq(a, b) == a.num * b.den = b.num * a.den
RatGt(a, b) == a.num * b.den > b.num * a.den
RatAddInt(a, k) == Rat(a.num + k * a.den, a.den)

-----------------------------------------------------------------------------
(* src/tools.py: _score_condition *)

\* The markers, character by character.  A Japanese character is written
\* as one string holding its reading: "k_shin", "k_pin" are the two
\* characters of the new-item label (shinpin), "k_mi", "k_shi", "k_you" the
\* three of the unused label (mishiyou), "k_me", "k_da", "h_tsu", "h_ta",
\* "k_kizu" the five of the no-visible-flaws label (medatta kizu); "k_" is a
\* kanji, "h_" a kana.

MarkerShinpin == <<"k_shin", "k_pin">>
MarkerNew == <<"n", "e", "w">>
MarkerMishiyou == <<"k_mi", "k_shi", "k_you">>
MarkerUnused == <<"u", "n", "u", "s", "e", "d">>
MarkerKizu == <<"k_me", "k_da", "h_tsu", "h_ta", "k_kizu">>
MarkerGood == <<"g", "o", "o", "d">>

_score_condition_tier_bug(condition) ==
    LET condition_lower == Lower(condition) IN
    IF Contains(condition_lower, MarkerMishiyou) \/ Contains(condition_lower, MarkerUnused)
      THEN <<85, "Very good condition (unused)">>
    ELSE IF Contains(condition_lower, MarkerShinpin) \/ Contains(condition_lower, MarkerNew)
      THEN <<100, "Excellent condition (new)">>
    ELSE IF Contains(condition_lower, MarkerKizu) \/ Contains(condition_lower, MarkerGood)
      THEN <<70, "Good condition">>
    ELSE <<50, "Acceptable condition">>

_score_condition(condition) ==
    LET condition_lower == Lower(condition) IN
    IF Contains(condition_lower, MarkerShinpin) \/ Contains(condition_lower, MarkerNew)
      THEN <<100, "Excellent condition (new)">>
    ELSE IF Contains(condition_lower, MarkerMishiyou) \/ Contains(condition_lower, MarkerUnused)
      THEN <<85, "Very good condition (unused)">>
    ELSE IF Contains(condition_lower, MarkerKizu) \/ Contains(condition_lower, MarkerGood)
      THEN <<70, "Good condition">>
    ELSE <<50, "Acceptable condition">>

-----------------------------------------------------------------------------
(* src/tools.py: analyze_products *)

Yen == "¥"

\* f"{n:03d}", the three digits of a group after the first
Pad3(n) ==
    IF n < 10 THEN "00" \o ToString(n)
    ELSE IF n < 100 THEN "0" \o ToString(n)
    ELSE ToString(n)

\* f"{n:,}" for n >= 0
RECURSIVE FormatThousands(_)
FormatThousands(n) ==
    IF n < 1000 THEN ToString(n)
    ELSE FormatThousands(n \div 1000) \o "," \o Pad3(n % 1000)

\* range(len(products)): a list of products is handled as the list of the
\* positions of its elements in the input, which stand for the dict objects
\* the Python lists share.
Indices(prods) == List([i \in 1..Len(prods) |-> i])

\* user_preferences after "if user_preferences is None: user_preferences = {}"
Preferences(prefs) == IF prefs = <<>> THEN EmptyDict ELSE prefs[1]

\* priority = user_preferences.get('priority', 'balanced')
Priority(prefs) == Get(Preferences(prefs), "priority", "balanced")

\* [p for p in products if not p.get('is_sold', False)], and the fallback
SoldFilter_no_fallback(prods) ==
    SelectSeq(Indices(prods), LAMBDA i : ~Get(prods[i], "is_sold", FALSE))

SoldFilter(prods) ==
    LET available_products ==
            SelectSeq(Indices(prods), LAMBDA i : ~Get(prods[i], "is_sold", FALSE))
    IN  IF available_products = <<>> THEN Indices(prods) ELSE available_products

\* "if max_budget:" and the filter under it
BudgetFilter(prods, available, prefs) ==
    IF TruthyInt(Preferences(prefs), "max_budget")
      THEN SelectSeq(available,
                     LAMBDA i : Get(prods[i], "price", 0) <= Preferences(prefs).max_budget)
      ELSE available

\* available_products when the scoring starts
AvailableProducts(prods, prefs) == BudgetFilter(prods, SoldFilter(prods), prefs)

RECURSIVE SumPrices(_, _)
SumPrices(prods, available) ==
    IF available = <<>> THEN 0
    ELSE Get(prods[Head(available)], "price", 0) + SumPrices(prods, Tail(available))

\* avg_price: None (<<>>) unless the priority is 'balanced'
AvgPrice(prods, available, priority) ==
    IF priority = "balanced" /\ available # <<>>
      THEN <<Rat(SumPrices(prods, available), Len(available))>>
      ELSE <<>>

\* The price score of the balanced mode and the reason it appends, if any.
\* price / avg_price < 0.8 is 5 * price * len < 4 * sum, for a positive sum.
BalancedPriceScore_band_bug(price, avg_price) ==
    IF price > 0 /\ avg_price # <<>> /\ avg_price[1].num > 0
      THEN IF 5 * price * avg_price[1].den <= 4 * avg_price[1].num
             THEN <<100, <<"Great value - below average price">> >>
           ELSE IF 5 * price * avg_price[1].den < 6 * avg_price[1].num
             THEN <<70, <<"Fair price">> >>
           ELSE <<50, <<>> >>
      ELSE <<50, <<>> >>

BalancedPriceScore(price, avg_price) ==
    IF price > 0 /\ avg_price # <<>> /\ avg_price[1].num > 0
      THEN IF 5 * price * avg_price[1].den < 4 * avg_price[1].num
             THEN <<100, <<"Great value - below average price">> >>
           ELSE IF 5 * price * avg_price[1].den < 6 * avg_price[1].num
             THEN <<70, <<"Fair price">> >>
           ELSE <<50, <<>> >>
      ELSE <<50, <<>> >>

\* The score and the reasons of one product before the bonus
PriorityScore_price_not_inverted(product, priority, avg_price) ==
    LET price == Get(product, "price", 0)
        condition == Lower(Get(product, "condition",
                               <<"N", "o", "t", " ", "s", "p", "e", "c", "i", "f", "i", "e", "d">>))
    IN  IF priority = "price"
          THEN IF price > 0
                 THEN [score |-> Rat(price, 100000),
                       reasons |-> <<"Affordable price at " \o Yen \o FormatThousands(price)>>]
                 ELSE [score |-> Rat(0, 1), reasons |-> <<>>]
        ELSE IF priority = "condition"
          THEN LET cond == _score_condition(condition)
               IN  [score |-> Rat(cond[1], 1), reasons |-> <<cond[2]>>]
        ELSE LET cond == _score_condition(condition)
                 ps == BalancedPriceScore(price, avg_price)
             IN  [score |-> Rat(cond[1] + ps[1], 2),
                  reasons |-> <<cond[2]>> \o ps[2]]

PriorityScore(product, priority, avg_price) ==
    LET price == Get(product, "price", 0)
        condition == Lower(Get(product, "condition",
                               <<"N", "o", "t", " ", "s", "p", "e", "c", "i", "f", "i", "e", "d">>))
    IN  IF priority = "price"
          THEN IF price > 0
                 THEN [score |-> Rat(100000, price),
                       reasons |-> <<"Affordable price at " \o Yen \o FormatThousands(price)>>]
                 ELSE [score |-> Rat(0, 1), reasons |-> <<>>]
        ELSE IF priority = "condition"
          THEN LET cond == _score_condition(condition)
               IN  [score |-> Rat(cond[1], 1), reasons |-> <<cond[2]>>]
        ELSE LET cond == _score_condition(condition)
                 ps == BalancedPriceScore(price, avg_price)
             IN  [score |-> Rat(cond[1] + ps[1], 2),
                  reasons |-> <<cond[2]>> \o ps[2]]

\* product.get('name') and product.get('price') and product.get('url')
HasCompleteInfo_ignores_url(product) ==
    TruthyStr(product, "name") /\ TruthyInt(product, "price")

HasCompleteInfo(product) ==
    TruthyStr(product, "name") /\ TruthyInt(product, "price") /\ TruthyStr(product, "url")

BonusReason == "Complete product information available"

\* One element of scored_products
ScoreProduct(prods, i, priority, avg_price) ==
    LET s == PriorityScore(prods[i], priority, avg_price)
    IN  IF HasCompleteInfo(prods[i])
          THEN [product |-> prods[i], ref |-> i,
                score |-> RatAddInt(s.score, 5),
                reasons |-> Append(s.reasons, BonusReason)]
          ELSE [product |-> prods[i], ref |-> i, score |-> s.score, reasons |-> s.reasons]

\* list.sort(key=score, reverse=True): a stable sort, so an element goes
\* behind every element whose score is at least its own
RECURSIVE InsertByScore_unstable(_, _)
InsertByScore_unstable(sorted, x) ==
    IF sorted = <<>> THEN <<x>>
    ELSE IF RatGt(Head(sorted).score, x.score)
      THEN <<Head(sorted)>> \o InsertByScore_unstable(Tail(sorted), x)
      ELSE <<x>> \o sorted

RECURSIVE InsertByScore(_, _)
InsertByScore(sorted, x) ==
    IF sorted = <<>> THEN <<x>>
    ELSE IF RatGeq(Head(sorted).score, x.score)
      THEN <<Head(sorted)>> \o InsertByScore(Tail(sorted), x)
      ELSE <<x>> \o sorted

RECURSIVE SortByScore(_)
SortByScore(scored) ==
    IF scored = <<>> THEN <<>>
    ELSE InsertByScore(SortByScore(SubSeq(scored, 1, Len(scored) - 1)),
                       scored[Len(scored)])

\* scored_products after the sort
ScoredProducts(prods, available, prefs) ==
    LET priority == Priority(prefs)
        avg_price == AvgPrice(prods, available, priority)
    IN  SortByScore(List([k \in 1..Len(available) |->
                             ScoreProduct(prods, available[k], priority, avg_price)]))

TopN == 3

\* scored_products[:3]
TopSlice_two(scored) == SubSeq(scored, 1, IF Len(scored) < 2 THEN Len(scored) ELSE 2)

TopSlice(scored) == SubSeq(scored, 1, IF Len(scored) < TopN THEN Len(scored) ELSE TopN)

\* the recommendations built from top_3
Recommendations(scored) ==
    LET top_3 == TopSlice(scored)
    IN  List([i \in 1..Len(top_3) |->
            [rank |-> i,
             product |-> top_3[i].product,
             product_ref |-> top_3[i].ref,
             score |-> top_3[i].score,
             reasons |-> top_3[i].reasons,
             recommendation_summary |->
                 "Ranked #" \o ToString(i) \o " - "
                   \o Get(top_3[i].product, "name", "Unknown") \o " at "
                   \o Get(top_3[i].product, "price_display", "N/A")]])

ErrNoProducts == "No products to analyze"
ErrNoMatch == "No products match the budget criteria"

\* The value analyze_products returns, given its locals available_products
\* and scored_products
AnalyzeResult_one_failure(prods, prefs, available, scored) ==
    IF prods = <<>> \/ available = <<>>
      THEN [success |-> FALSE, error |-> ErrNoMatch, recommendations |-> <<>>]
    ELSE [success |-> TRUE,
          total_analyzed |-> Len(available),
          priority |-> Priority(prefs),
          recommendations |-> Recommendations(scored)]

AnalyzeResult(prods, prefs, available, scored) ==
    IF prods = <<>>
      THEN [success |-> FALSE, error |-> ErrNoProducts, recommendations |-> <<>>]
    ELSE IF available = <<>>
      THEN [success |-> FALSE, error |-> ErrNoMatch, recommendations |-> <<>>]
    ELSE [success |-> TRUE,
          total_analyzed |-> Len(available),
          priority |-> Priority(prefs),
          recommendations |-> Recommendations(scored)]

\* analyze_products: what it returns and what scored_products holds then
\* (empty when it returned before the scoring)
analyze_products(prods, prefs) ==
    LET available == AvailableProducts(prods, prefs)
        scored == IF prods # <<>> /\ available # <<>>
                    THEN ScoredProducts(prods, available, prefs)
                    ELSE <<>>
    IN  [returned |-> AnalyzeResult(prods, prefs, available, scored),
         scored_products |-> scored]

-----------------------------------------------------------------------------
(* src/mercari_scraper.py: MercariScraper *)

BASE_URL == "https://jp.mercari.com"

\* An href is the record of its parts, [origin, dir, id, query], and the
\* string is their concatenation: origin is "" for a relative link, dir is
\* the path up to the identifier ("/item/" for a product page), query is ""
\* or starts with "?".
HrefString(href) == href.origin \o href.dir \o href.id \o href.query

\* href.startswith('http')
StartsWithHttp(href) == href.origin # ""

\* '/item/' in href
HasItemPath(href) == href.dir = "/item/"

\* The decimal digits int() accepts, and a character str.isdigit accepts
\* but int() rejects with ValueError
IsDecimal(c) == c \in {"0", "1", "2", "3", "4", "5", "6", "7", "8", "9"}

SuperscriptTwo == "²"

\* str.isdigit on the characters a price text is made of
IsDigit(c) == IsDecimal(c) \/ c = SuperscriptTwo

\* int(price_clean) raises ValueError
IntRaises(price_clean) == \E i \in 1..Len(price_clean) : ~IsDecimal(price_clean[i])

DigitValue(c) ==
    CASE c = "0" -> 0 [] c = "1" -> 1 [] c = "2" -> 2 [] c = "3" -> 3 [] c = "4" -> 4
      [] c = "5" -> 5 [] c = "6" -> 6 [] c = "7" -> 7 [] c = "8" -> 8 [] c = "9" -> 9

\* int(digits) for a non-empty digit string
RECURSIVE ParseInt(_)
ParseInt(digits) ==
    IF Len(digits) = 1 THEN DigitValue(digits[1])
    ELSE 10 * ParseInt(SubSeq(digits, 1, Len(digits) - 1)) + DigitValue(digits[Len(digits)])

\* ''.join(filter(str.isdigit, price_text)), then int(...) or 0
PriceOfText(price_text) ==
    LET price_clean == SelectSeq(price_text, IsDigit)
    IN  IF price_clean # <<>> THEN ParseInt(price_clean) ELSE 0

SeeDetails == <<"S", "e", "e", " ", "d", "e", "t", "a", "i", "l", "s">>

\* _extract_product_info: [raised, product], product being the returned
\* dict, <<>> for None and when int() raised.
\* An item node is [link, title, img, price, sold]: link is <<>> or <<href>>
\* (the anchor the two lookups settle on, the empty href standing for an
\* anchor without href), title is <<>> or <<text>>, img is <<>> or <<alt>>, price is <<>> or
\* <<[text, value]>> with value <<>> or <<text>>, sold says whether one of
\* the three sold markers is in the node.
ItemName(item) ==
    IF item.title # <<>>
      THEN IF item.img # <<>> /\ item.img[1] # NoneStr /\ item.img[1] # ""
                /\ Len(item.title[1]) < 3
             THEN item.img[1]
             ELSE item.title[1]
      ELSE IF item.img # <<>> THEN item.img[1] ELSE "Unknown Product"

ItemPriceText(item) ==
    LET price_elem == item.price[1]
    IN  IF price_elem.text = <<>> /\ price_elem.value # <<>>
          THEN price_elem.value[1]
          ELSE price_elem.text

_extract_product_info(item) ==
    IF item.link = <<>> \/ HrefString(item.link[1]) = ""
      THEN [raised |-> FALSE, product |-> <<>>]
    ELSE IF item.price # <<>> /\ IntRaises(SelectSeq(ItemPriceText(item), IsDigit))
      THEN [raised |-> TRUE, product |-> <<>>]
      ELSE LET href == item.link[1]
               price == IF item.price # <<>> THEN PriceOfText(ItemPriceText(item)) ELSE 0
           IN  [raised |-> FALSE,
                product |->
                  <<[url |-> IF StartsWithHttp(href) THEN HrefString(href)
                                                     ELSE BASE_URL \o HrefString(href),
                     id |-> IF HasItemPath(href) THEN href.id ELSE "unknown",
                     name |-> ItemName(item),
                     price |-> price,
                     price_display |-> IF item.price # <<>>
                                         THEN Yen \o FormatThousands(price)
                                         ELSE "N/A",
                     condition |-> SeeDetails,
                     is_sold |-> item.sold]>>]

\* The item nodes the locator cascade settles on: the first non-empty list
ProductItems_union(page) == page.item_cell \o page.item_thumbnail \o page.mer_item_thumbnail

ProductItems(page) ==
    IF page.item_cell # <<>> THEN page.item_cell
    ELSE IF page.item_thumbnail # <<>> THEN page.item_thumbnail
    ELSE page.mer_item_thumbnail

\* product_items[:max_results]: a negative max_results counts from the end
Slice(items, max_results) ==
    LET stop == IF max_results < 0 THEN Len(items) + max_results ELSE max_results
    IN  SubSeq(items, 1, IF Len(items) < stop THEN Len(items) ELSE stop)

\* The loop over the item nodes: None and a raised exception both leave the
\* item out
RECURSIVE ExtractEach_aborts(_)
ExtractEach_aborts(items) ==
    IF items = <<>> THEN <<>>
    ELSE LET r == _extract_product_info(Head(items))
         IN  IF r.raised THEN <<>> ELSE r.product \o ExtractEach_aborts(Tail(items))

RECURSIVE ExtractEach(_)
ExtractEach(items) ==
    IF items = <<>> THEN <<>>
    ELSE _extract_product_info(Head(items)).product \o ExtractEach(Tail(items))

_extract_products(page, max_results) == ExtractEach(Slice(ProductItems(page), max_results))

\* _map_condition: the code of the lowercased label, '' for a label the
\* table does not hold.  A label is the sequence of its characters.
condition_map ==
    { [label |-> <<"n", "e", "w">>, code |-> "1"],
      [label |-> <<"l", "i", "k", "e", "_", "n", "e", "w">>, code |-> "2"],
      [label |-> <<"g", "o", "o", "d">>, code |-> "3"],
      [label |-> <<"a", "c", "c", "e", "p", "t", "a", "b", "l", "e">>, code |-> "4"],
      [label |-> <<"p", "o", "o", "r">>, code |-> "5"] }

_map_condition(condition) ==
    LET hits == { e \in condition_map : e.label = Lower(condition) }
    IN  IF hits = {} THEN "" ELSE (CHOOSE e \in hits : TRUE).code

\* The params dict search_products builds from its arguments
SearchParams(args) ==
    LET base == [k \in {"keyword", "sort"} |->
                    IF k = "keyword" THEN args.keyword
                    ELSE Get(args, "sort", "created_time")]
        with_min == IF TruthyInt(args, "min_price")
                      THEN [k \in DOMAIN base \cup {"price_min"} |->
                               IF k = "price_min" THEN ToString(args.min_price) ELSE base[k]]
                      ELSE base
        with_max == IF TruthyInt(args, "max_price")
                      THEN [k \in DOMAIN with_min \cup {"price_max"} |->
                               IF k = "price_max" THEN ToString(args.max_price)
                               ELSE with_min[k]]
                      ELSE with_min
    IN  IF "condition" \in DOMAIN args /\ args.condition # <<>>
          THEN [k \in DOMAIN with_max \cup {"item_condition_id"} |->
                   IF k = "item_condition_id" THEN _map_condition(args.condition)
                   ELSE with_max[k]]
          ELSE with_max

\* urllib.parse.quote_plus on the values the model uses: a space becomes
\* "+", letters, digits and "_" stay
QuotePlus(v) == IF v = "Nintendo Switch" THEN "Nintendo+Switch" ELSE v

\* The keys of params in the order search_products inserts them
ParamOrder == <<"keyword", "sort", "price_min", "price_max", "item_condition_id">>

\* urllib.parse.urlencode(params)
RECURSIVE JoinWith(_, _)
JoinWith(parts, sep) ==
    IF parts = <<>> THEN ""
    ELSE IF Len(parts) = 1 THEN parts[1]
    ELSE parts[1] \o sep \o JoinWith(Tail(parts), sep)

urlencode(params) ==
    LET keys == SelectSeq(ParamOrder, LAMBDA k : k \in DOMAIN params)
    IN  JoinWith(List([i \in 1..Len(keys) |-> keys[i] \o "=" \o QuotePlus(params[keys[i]])]),
                 "&")

SEARCH_URL == BASE_URL \o "/search"

\* The url search_products navigates to
SearchUrl(args) == SEARCH_URL \o "?" \o urlencode(SearchParams(args))

\* _setup_driver on the driver field: nothing to do with a live driver;
\* else Chrome starts, or its installation or start raises, or it starts
\* and the script that follows raises, the field being set already
StartOutcomes == {"ok", "chrome_raises", "script_raises"}

_setup_driver(drv, start) ==
    IF drv = "live" THEN [driver |-> "live", raised |-> FALSE, created |-> 0, start |-> "none"]
    ELSE IF start = "ok"
      THEN [driver |-> "live", raised |-> FALSE, created |-> 1, start |-> start]
    ELSE IF start = "script_raises"
      THEN [driver |-> "live", raised |-> TRUE, created |-> 1, start |-> start]
    ELSE [driver |-> "None", raised |-> TRUE, created |-> 0, start |-> start]

\* What can happen between driver.get and the return of a scraper method:
\* all goes well, driver.get raises, the wait times out, or the parsing of
\* the page raises
FetchOutcomes == {"ok", "get_raises", "wait_times_out", "parse_raises"}

MaxResultsDefault == 20
MaxResultsCap == 50

\* min(max_results, 50) of search_mercari
CappedMaxResults(args) ==
    LET max_results == Get(args, "max_results", MaxResultsDefault)
    IN  IF max_results < MaxResultsCap THEN max_results ELSE MaxResultsCap

\* search_products once the driver is there: the extracted products, or []
\* when navigation, the wait or the extraction raised
search_products(args, fetch_ok, page) ==
    IF fetch_ok THEN _extract_products(page, CappedMaxResults(args)) ELSE <<>>

\* The value search_mercari returns; driver_ok says whether _setup_driver
\* returned (the driver was there or could be started)
search_mercari(args, driver_ok, fetch_ok, page) ==
    IF driver_ok
      THEN LET found == search_products(args, fetch_ok, page)
           IN  [success |-> TRUE, keyword |-> args.keyword,
                total_results |-> Len(found), products |-> found]
      ELSE [success |-> FALSE, error |-> "driver", products |-> <<>>]

\* scraper.search_products(**args) called directly: the exception of
\* _setup_driver leaves the method, everything after it is caught
MercariScraper_search_products(args, setup_raised, fetch, page) ==
    IF setup_raised THEN [raised |-> TRUE]
    ELSE [returned |->
            IF fetch = "ok"
              THEN _extract_products(page, Get(args, "max_results", MaxResultsDefault))
              ELSE <<>>]

\* scraper.get_product_details, from the page on.  A detail page is the
\* record of what each lookup of the method finds: name_elem is <<>> or
\* <<text>>; price_elem is <<>> or <<[value, text]>>, value the attribute
\* (<<>> when absent); condition_elem is <<>> or <<[next, text]>>, next the
\* text of the element after its parent (<<>> when there is none); rows are
\* the display rows, each [marked, text], marked when the row mentions the
\* condition and text being its text without the label; desc_elem and
\* desc_section are <<>> or <<text>>; shipping_elem is <<>> or <<text>> and
\* shipping_rows are [marked, text], marked when the row mentions shipping;
\* seller_elem is <<>> or <<[text, name, href]>>, name the attribute (<<>>
\* when absent) and href [origin, path], both "" when absent;
\* category_elem is <<>> or <<[anchors, spans]>>, the texts of its links and
\* of its spans; sold says whether a sold marker is on the page; likes_elem
\* is <<>> or <<text>>; images_by_testid and images_by_src are the src
\* attributes of the images each lookup finds, NoneStr for an absent one.
DetailName(page) ==
    IF page.name_elem # <<>> THEN page.name_elem[1] ELSE "Unknown Product"

\* price_elem.get('value') or price_elem.get_text(strip=True)
DetailPriceText(page) ==
    LET price_elem == page.price_elem[1]
    IN  IF price_elem.value # <<>> /\ price_elem.value[1] # <<>>
          THEN price_elem.value[1]
          ELSE price_elem.text

RECURSIVE FirstRow(_, _)
FirstRow(rows, default) ==
    IF rows = <<>> THEN default
    ELSE IF Head(rows).marked THEN Head(rows).text
    ELSE FirstRow(Tail(rows), default)

DetailCondition(page) ==
    IF page.condition_elem # <<>>
      THEN LET condition_elem == page.condition_elem[1]
           IN  IF condition_elem.next # <<>> THEN condition_elem.next[1]
               ELSE condition_elem.text
      ELSE FirstRow(page.rows, "Not specified")

DetailDescription(page) ==
    IF page.desc_elem # <<>> THEN page.desc_elem[1]
    ELSE IF page.desc_section # <<>> THEN page.desc_section[1]
    ELSE "No description available"

DetailShipping(page) ==
    IF page.shipping_elem # <<>> THEN page.shipping_elem[1]
    ELSE FirstRow(page.shipping_rows, "See listing")

DetailSellerName(page) ==
    IF page.seller_elem = <<>> THEN "Unknown"
    ELSE LET seller_elem == page.seller_elem[1]
         IN  IF seller_elem.text # "" THEN seller_elem.text
             ELSE IF seller_elem.name # <<>> THEN seller_elem.name[1]
             ELSE "Unknown"

DetailSellerUrl(page) ==
    IF page.seller_elem = <<>> THEN ""
    ELSE LET seller_link == page.seller_elem[1].href
         IN  IF seller_link.origin \o seller_link.path # "" /\ seller_link.origin = ""
               THEN BASE_URL \o seller_link.path
               ELSE seller_link.origin \o seller_link.path

DetailCategory(page) ==
    IF page.category_elem = <<>> THEN "Not specified"
    ELSE LET category_elem == page.category_elem[1]
             breadcrumb_items == IF category_elem.anchors # <<>> THEN category_elem.anchors
                                 ELSE category_elem.spans
         IN  JoinWith(SelectSeq(breadcrumb_items, LAMBDA t : t # ""), " > ")

MaxImages == 10

\* [img.get('src') for img in img_elements[:10] if img.get('src')]
DetailImages(page) ==
    LET img_elements == IF page.images_by_testid # <<>> THEN page.images_by_testid
                        ELSE page.images_by_src
    IN  SelectSeq(Slice(img_elements, MaxImages), LAMBDA src : src # NoneStr /\ src # "")

\* One of the two int() calls of the method raises
DetailRaises(page) ==
    \/ page.price_elem # <<>> /\ IntRaises(SelectSeq(DetailPriceText(page), IsDigit))
    \/ page.likes_elem # <<>> /\ IntRaises(SelectSeq(page.likes_elem[1], IsDigit))

DetailProduct(product_url, page) ==
    LET price == IF page.price_elem # <<>> THEN PriceOfText(DetailPriceText(page)) ELSE 0
        images == DetailImages(page)
    IN  [url |-> HrefString(product_url),
         id |-> IF HasItemPath(product_url) THEN product_url.id ELSE "unknown",
         name |-> DetailName(page),
         price |-> price,
         price_display |-> IF page.price_elem # <<>> THEN Yen \o FormatThousands(price)
                           ELSE "N/A",
         condition |-> DetailCondition(page),
         description |-> DetailDescription(page),
         shipping |-> DetailShipping(page),
         seller_name |-> DetailSellerName(page),
         seller_url |-> DetailSellerUrl(page),
         category |-> DetailCategory(page),
         is_sold |-> page.sold,
         likes |-> IF page.likes_elem # <<>> THEN PriceOfText(page.likes_elem[1]) ELSE 0,
         images |-> images,
         image_count |-> Len(images)]

\* scraper.get_product_details once the driver is there: <<product>>, or
\* <<>> for the None of the except branch
MercariScraper_get_product_details(product_url, fetch, page) ==
    IF fetch = "ok" /\ ~DetailRaises(page) THEN <<DetailProduct(product_url, page)>> ELSE <<>>

ErrDetails == "Failed to extract product details"

\* What the tool get_product_details returns; setup_raised says whether
\* _setup_driver raised, error then being the text of the exception
\* (a record [raised |-> TRUE] stands for an exception that leaves the call)
get_product_details_propagates(product_url, setup_raised, fetch, page) ==
    IF setup_raised
      THEN [raised |-> TRUE]
      ELSE LET product == MercariScraper_get_product_details(product_url, fetch, page)
           IN  IF product # <<>>
                 THEN [success |-> TRUE, product |-> product]
                 ELSE [success |-> FALSE, error |-> ErrDetails, product |-> <<>>]

get_product_details(product_url, setup_raised, fetch, page) ==
    IF setup_raised
      THEN [success |-> FALSE, error |-> "driver", product |-> <<>>]
      ELSE LET product == MercariScraper_get_product_details(product_url, fetch, page)
           IN  IF product # <<>>
                 THEN [success |-> TRUE, product |-> product]
                 ELSE [success |-> FALSE, error |-> ErrDetails, product |-> <<>>]

-----------------------------------------------------------------------------
(* The inputs of the model *)

MaxLen == 4        \* longest products list handed to analyze_products
MaxItems == 3      \* most item nodes on a results page

\* Condition labels of the marketplace, and two English ones
CondNewUnused == <<"k_shin", "k_pin", "k_ten", "k_mi", "k_shi", "k_you">>
CondNearUnused == <<"k_mi", "k_shi", "k_you", "h_ni", "k_chika", "h_i">>
CondNoFlaws ==
    <<"k_me", "k_da", "h_tsu", "h_ta", "k_kizu", "h_ya", "k_yogo", "h_re", "h_na", "h_shi">>
CondSomeFlaws == <<"h_ya", "h_ya", "k_kizu", "h_ya", "k_yogo", "h_re", "h_a", "h_ri">>
CondBrandNew == <<"B", "r", "a", "n", "d", " ", "N", "e", "w">>
CondGood == <<"G", "o", "o", "d">>

ItemUrl == "https://jp.mercari.com/item/m1"

Prod(name, price, condition, is_sold) ==
    [name |-> name, price |-> price, url |-> ItemUrl,
     condition |-> condition, is_sold |-> is_sold]

\* Sold and unsold products around the budgets
PoolBudget ==
    { Prod("A", 800, SeeDetails, FALSE), Prod("A", 800, SeeDetails, TRUE),
      Prod("A", 1200, SeeDetails, FALSE),
      Prod("A", 25000, SeeDetails, FALSE), Prod("A", 25000, SeeDetails, TRUE),
      [name |-> "A", price |-> 1000, url |-> ItemUrl, condition |-> SeeDetails] }

PrefsBudget ==
    { <<>>, <<EmptyDict>> }
      \cup { <<[max_budget |-> b]>> : b \in {-1, 0, 1000, 20000} }
      \cup { <<[priority |-> p, max_budget |-> 1000]>> : p \in {"price", "condition"} }

\* Prices for the price mode, with and without the bonus
PoolPrice ==
    { Prod("A", 0, SeeDetails, FALSE), Prod("A", 1000, SeeDetails, FALSE),
      Prod("A", 20000, SeeDetails, FALSE), Prod("A", 25000, SeeDetails, FALSE),
      Prod("", 20000, SeeDetails, FALSE),
      [name |-> "A", url |-> ItemUrl, condition |-> SeeDetails, is_sold |-> FALSE] }

PrefsPrice == { <<[priority |-> "price"]>> }

\* One product under each condition label
PoolCondition ==
    { Prod("A", 1000, c, FALSE) :
        c \in {CondNewUnused, CondNearUnused, CondNoFlaws, CondSomeFlaws,
               CondBrandNew, CondGood} }
      \cup { Prod("", 1000, CondNearUnused, FALSE),
             [name |-> "A", price |-> 1000, url |-> ItemUrl, is_sold |-> FALSE] }

PrefsCondition == { <<[priority |-> "condition"]>> }

\* Prices around their mean, in two condition tiers
PoolBalanced ==
    { Prod("A", p, c, FALSE) : p \in {0, 800, 1000, 1200}, c \in {CondNewUnused, SeeDetails} }

PrefsBalanced == { <<>>, <<[priority |-> "balanced"]>> }

\* A complete product, and one for each way of being incomplete
PoolComplete ==
    { [name |-> "A", price |-> 1000, url |-> ItemUrl],
      [price |-> 1000, url |-> ItemUrl],
      [name |-> "", price |-> 1000, url |-> ItemUrl],
      [name |-> NoneStr, price |-> 1000, url |-> ItemUrl],
      [name |-> "A", url |-> ItemUrl],
      [name |-> "A", price |-> 0, url |-> ItemUrl],
      [name |-> "A", price |-> 1000],
      [name |-> "A", price |-> 1000, url |-> ""] }

PrefsComplete == { <<[priority |-> p]>> : p \in {"price", "condition", "balanced"} }

Families ==
    { [pool |-> PoolBudget, prefs |-> PrefsBudget],
      [pool |-> PoolPrice, prefs |-> PrefsPrice],
      [pool |-> PoolCondition, prefs |-> PrefsCondition],
      [pool |-> PoolBalanced, prefs |-> PrefsBalanced],
      [pool |-> PoolComplete, prefs |-> PrefsComplete] }

Lists(pool, n) == UNION { [1..k -> pool] : k \in 0..n }

\* Item nodes of a results page
Href(id) == [origin |-> "", dir |-> "/item/", id |-> id, query |-> ""]

PriceElem(text) == <<[text |-> text, value |-> <<>>]>>

ItemPool ==
    { [link |-> <<Href("m1")>>, title |-> <<"Nintendo Switch">>, img |-> <<"Nintendo Switch">>,
       price |-> PriceElem(<<Yen, "1", "8", ",", "0", "0", "0">>), sold |-> FALSE],
      [link |-> <<Href("m2")>>, title |-> <<"Nintendo Switch Lite">>, img |-> <<>>,
       price |-> PriceElem(<<Yen, "2", "5", ",", "0", "0", "0">>), sold |-> FALSE],
      [link |-> <<Href("m3")>>, title |-> <<>>, img |-> <<"Switch">>,
       price |-> <<[text |-> <<>>, value |-> <<<<"9", "8", "0", "0">>>>]>>, sold |-> TRUE],
      [link |-> <<>>, title |-> <<"Joy-Con">>, img |-> <<>>,
       price |-> PriceElem(<<Yen, "3", ",", "0", "0", "0">>), sold |-> FALSE] }

Pages ==
    { [item_cell |-> cells, item_thumbnail |-> <<>>, mer_item_thumbnail |-> <<>>] :
        cells \in Lists(ItemPool, MaxItems) }

\* Item nodes for a direct call of the extractor.  Every way the name
\* lookup can go: the title element absent, or its text empty, short or
\* long, and the image absent, or its alt attribute absent, empty or set
ItemsName ==
    { [link |-> <<Href("m1")>>, title |-> t, img |-> i,
       price |-> PriceElem(<<Yen, "5", "0", "0">>), sold |-> FALSE] :
        t \in {<<>>, <<"">>, <<"AB">>, <<"Nintendo Switch">>},
        i \in {<<>>, <<NoneStr>>, <<"">>, <<"Switch">>} }

\* Every way the price lookup can go: no price element, a text without
\* digits, a grouped price, an empty text with and without a value
\* attribute, and a text int() rejects
ItemsPrice ==
    { [link |-> <<Href("m1")>>, title |-> <<"Nintendo Switch">>, img |-> <<>>,
       price |-> pr, sold |-> FALSE] :
        pr \in { <<>>,
                 PriceElem(<<"S", "O", "L", "D">>),
                 PriceElem(<<Yen, "1", "2", ",", "3", "4", "5">>),
                 PriceElem(<<Yen, "0">>),
                 <<[text |-> <<>>, value |-> <<<<"1", "2", "3", "4", "5">>>>]>>,
                 PriceElem(<<>>),
                 PriceElem(<<"1", "0", "0", "m", SuperscriptTwo>>) } }

\* Every way the link lookup can go: no anchor, an anchor without href, a
\* relative and an absolute item link, one with a query, and an item that
\* is itself an anchor to another path; and an item whose price raises
ItemsLink ==
    { [link |-> l, title |-> <<"Nintendo Switch">>, img |-> <<>>,
       price |-> PriceElem(<<Yen, "5", "0", "0">>), sold |-> FALSE] :
        l \in { <<>>,
                <<[origin |-> "", dir |-> "", id |-> "", query |-> ""]>>,
                <<Href("m1")>>,
                <<[origin |-> "https://jp.mercari.com", dir |-> "/item/", id |-> "m2",
                   query |-> ""]>>,
                <<[origin |-> "", dir |-> "/item/", id |-> "m3", query |-> "?ref=search"]>>,
                <<[origin |-> "", dir |-> "/shops/product/", id |-> "s4", query |-> ""]>> } }
      \cup { [link |-> <<Href("m5")>>, title |-> <<"Nintendo Switch">>, img |-> <<>>,
              price |-> PriceElem(<<"1", "0", "0", "m", SuperscriptTwo>>), sold |-> TRUE] }

ItemsCascade ==
    { [link |-> <<Href(id)>>, title |-> <<"Nintendo Switch">>, img |-> <<>>,
       price |-> PriceElem(<<Yen, "5", "0", "0">>), sold |-> FALSE] : id \in {"m1", "m2"} }

OnlyItemCells(cells) ==
    [item_cell |-> cells, item_thumbnail |-> <<>>, mer_item_thumbnail |-> <<>>]

\* A page on which no locator matches
NoPage == OnlyItemCells(<<>>)

\* The pages and the counts of a direct call of _extract_products
ExtractFamilies ==
    { [pages |-> { OnlyItemCells(cells) : cells \in Lists(ItemsName, 1) },
       counts |-> {1, MaxResultsDefault}],
      [pages |-> { OnlyItemCells(cells) : cells \in Lists(ItemsPrice, MaxItems - 1) },
       counts |-> {MaxResultsDefault}],
      [pages |-> { OnlyItemCells(cells) : cells \in Lists(ItemsLink, MaxItems) },
       counts |-> {-1, 0, 1, 2, MaxResultsDefault}],
      [pages |-> { [item_cell |-> a, item_thumbnail |-> b, mer_item_thumbnail |-> c] :
                     a \in Lists(ItemsCascade, 1), b \in Lists(ItemsCascade, 2),
                     c \in Lists(ItemsCascade, 1) },
       counts |-> {1, MaxResultsDefault}] }

\* The calls, urls and pages of a session with the scraper
GoodCell(id) ==
    [link |-> <<Href(id)>>, title |-> <<"Nintendo Switch">>, img |-> <<>>,
     price |-> PriceElem(<<Yen, "1", "8", ",", "0", "0", "0">>), sold |-> FALSE]

MaxCells == 52     \* item cells on the longest results page

SessionPages ==
    { NoPage,
      OnlyItemCells(<<GoodCell("m1"), GoodCell("m2"), GoodCell("m3")>>),
      OnlyItemCells([i \in 1..MaxCells |-> GoodCell("m1")]),
      [item_cell |-> <<>>, item_thumbnail |-> <<GoodCell("m4")>>,
       mer_item_thumbnail |-> <<>>] }

ShortPages == { page \in SessionPages : Len(page.item_cell) <= 3 }

SessionSearchCalls ==
    { [keyword |-> "Nintendo Switch"],
      [keyword |-> ""],
      [keyword |-> "Nintendo Switch", max_results |-> -1],
      [keyword |-> "Nintendo Switch", max_results |-> MaxCells + 8],
      [keyword |-> "Nintendo Switch", max_results |-> 2, min_price |-> 1000,
       max_price |-> 20000, sort |-> "price_asc"] }

\* Direct calls of scraper.search_products, with every kind of condition
SessionScraperCalls ==
    { [keyword |-> "Nintendo Switch"], [keyword |-> "Nintendo Switch", max_price |-> 20000] }
      \cup { [keyword |-> "Nintendo Switch", condition |-> c] :
               c \in { <<>>, <<"n", "e", "w">>, <<"N", "e", "w">>,
                       <<"l", "i", "k", "e", "_", "n", "e", "w">>, <<"g", "o", "o", "d">>,
                       <<"a", "c", "c", "e", "p", "t", "a", "b", "l", "e">>,
                       <<"p", "o", "o", "r">>, <<"m", "i", "n", "t">>,
                       <<"u", "s", "e", "d">> } }

ProductUrls ==
    { [origin |-> "https://jp.mercari.com", dir |-> "/item/", id |-> "m1", query |-> ""],
      [origin |-> "https://jp.mercari.com", dir |-> "/shops/product/", id |-> "s4",
       query |-> ""] }

EmptyDetailPage ==
    [name_elem |-> <<>>, price_elem |-> <<>>, condition_elem |-> <<>>, rows |-> <<>>,
     desc_elem |-> <<>>, desc_section |-> <<>>, shipping_elem |-> <<>>,
     shipping_rows |-> <<>>, seller_elem |-> <<>>, category_elem |-> <<>>, sold |-> FALSE,
     likes_elem |-> <<>>, images_by_testid |-> <<>>, images_by_src |-> <<>>]

FullDetailPage ==
    [name_elem |-> <<"Nintendo Switch">>,
     price_elem |-> <<[value |-> <<<<"1", "8", "0", "0", "0">>>>,
                       text |-> <<Yen, "1", "8", ",", "0", "0", "0">>]>>,
     condition_elem |-> <<[next |-> <<"like new">>, text |-> "item condition"]>>,
     rows |-> <<>>,
     desc_elem |-> <<"Console with dock">>, desc_section |-> <<>>,
     shipping_elem |-> <<"Shipping included">>, shipping_rows |-> <<>>,
     seller_elem |-> <<[text |-> "taro", name |-> <<>>,
                        href |-> [origin |-> "", path |-> "/user/profile/1"]]>>,
     category_elem |-> <<[anchors |-> <<"Games", "", "Consoles">>, spans |-> <<>>]>>,
     sold |-> TRUE,
     likes_elem |-> <<<<"1", "2">>>>,
     images_by_testid |-> [i \in 1..(MaxImages + 2) |->
                              IF i = 2 THEN NoneStr ELSE "https://static.mercdn.net/1.jpg"],
     images_by_src |-> <<>>]

\* A page that resolves through the second choices of the lookups
FallbackDetailPage ==
    [name_elem |-> <<"Joy-Con">>,
     price_elem |-> <<[value |-> <<>>, text |-> <<"S", "O", "L", "D">>]>>,
     condition_elem |-> <<>>,
     rows |-> <<[marked |-> FALSE, text |-> "Size M"], [marked |-> TRUE, text |-> "good"]>>,
     desc_elem |-> <<>>, desc_section |-> <<"Pair of controllers">>,
     shipping_elem |-> <<>>,
     shipping_rows |-> <<[marked |-> TRUE, text |-> "Shipping paid by buyer"]>>,
     seller_elem |-> <<[text |-> "", name |-> <<"hanako">>,
                        href |-> [origin |-> "", path |-> ""]]>>,
     category_elem |-> <<[anchors |-> <<>>, spans |-> <<"Games">>]>>,
     sold |-> FALSE,
     likes_elem |-> <<<<>>>>,
     images_by_testid |-> <<>>,
     images_by_src |-> <<"https://static.mercdn.net/2.jpg">>]

\* A page whose price text makes int() raise
RaisingDetailPage ==
    [FullDetailPage EXCEPT !.price_elem =
        <<[value |-> <<>>, text |-> <<"1", "0", "0", "m", SuperscriptTwo>>]>>]

DetailPages == {EmptyDetailPage, FullDetailPage, FallbackDetailPage, RaisingDetailPage}

SearchCalls ==
    { [keyword |-> "Nintendo Switch"],
      [keyword |-> "Nintendo Switch", max_price |-> 20000],
      [keyword |-> "Nintendo Switch", max_price |-> 20000, max_results |-> 2] }

PrefsSearch == { <<>>, <<[priority |-> "balanced"]>>, <<[priority |-> "price", max_budget |-> 20000]>> }

-----------------------------------------------------------------------------
(* The state machine: one tool sequence of the agent, either an
   analyze_products call on a list the model hands it, or a search_mercari
   call whose products array is then handed to analyze_products. *)

InitAnalyze ==
    /\ pc = "analyze"
    /\ search_args = <<>>
    /\ \E f \in Families :
         /\ products \in Lists(f.pool, MaxLen)
         /\ user_preferences \in f.prefs

InitSearch ==
    /\ pc = "search"
    /\ search_args \in { <<a>> : a \in SearchCalls }
    /\ products = <<>>
    /\ user_preferences \in PrefsSearch

\* No extraction has taken place
NoExtraction == soup = NoPage /\ limit = 0

\* scraper = MercariScraper(): no driver yet, no call made
NewScraper ==
    /\ driver = "None"
    /\ page_url = ""
    /\ navigated = FALSE
    /\ history = <<>>

\* execute_tool runs one call at a time
NoThreads == threads = <<>> /\ drivers_created = 0

\* The locals of _agentic_loop before its first statement
NoLoop == [iteration |-> 0, model_calls |-> 0, messages |-> <<>>, response |-> <<>>,
           pending |-> <<>>]

\* agent = MercariAgentOpenAI(): an empty history, no chat call made
NoAgent ==
    /\ conversation_history = <<>>
    /\ loop = NoLoop
    /\ chat_result = EmptyDict
    /\ turns = 0

Init ==
    /\ InitAnalyze \/ InitSearch
    /\ NoExtraction
    /\ NewScraper
    /\ NoThreads
    /\ NoAgent
    /\ url_params = EmptyDict
    /\ scored_products = <<>>
    /\ last_tool = "none"
    /\ result = EmptyDict

\* What went wrong at the level of the page in a call: the outcome of the
\* driver start when it raised, else what kept the page from being parsed
Fault(setup, fetch, parse_raises) ==
    IF setup.raised THEN setup.start
    ELSE IF fetch # "ok" THEN fetch
    ELSE IF parse_raises THEN "parse_raises"
    ELSE "none"

\* The history after a call with this fault: of the call before it only
\* whether it had a fault is kept
Recent(faults, fault) ==
    IF faults = <<>> THEN <<fault>>
    ELSE <<IF faults[Len(faults)] = "none" THEN "none" ELSE "fault", fault>>

\* The driver after a call that built the url: driver.get has been called
\* unless _setup_driver raised, and the driver shows the url unless
\* driver.get raised
DriverAfter(setup, fetch, url, parse_raises) ==
    /\ driver' = setup.driver
    /\ navigated' = ~setup.raised
    /\ page_url' = IF setup.raised \/ fetch = "get_raises" THEN page_url ELSE url
    /\ history' = Recent(history, Fault(setup, fetch, parse_raises))

\* search_mercari(**args) as a step of the program: the driver is there or
\* starts or fails to, the page is fetched or the fetch raises, and the
\* marketplace answers with any page
SearchMercariStep(args, start, fetch, page) ==
    \E setup \in {_setup_driver(driver, start)} :
    \E r \in {search_mercari(args, ~setup.raised, fetch = "ok", page)} :
        /\ DriverAfter(setup, fetch, SearchUrl(args), FALSE)
        /\ url_params' = IF setup.raised THEN EmptyDict ELSE SearchParams(args)
        /\ soup' = IF ~setup.raised /\ fetch = "ok" THEN page ELSE NoPage
        /\ limit' = IF ~setup.raised /\ fetch = "ok" THEN CappedMaxResults(args) ELSE 0
        /\ result' = r
        /\ last_tool' = "search_mercari"

\* execute_tool("search_mercari", ...)
SearchMercari ==
    /\ pc = "search"
    /\ \E start \in StartOutcomes, fetch \in FetchOutcomes, page \in Pages :
         SearchMercariStep(search_args[1], start, fetch, page)
    /\ products' = result'.products
    /\ pc' = "analyze"
    /\ UNCHANGED <<search_args, user_preferences, scored_products>>
    /\ UNCHANGED <<thread_vars, agent_vars>>

\* execute_tool("analyze_products", ...)
AnalyzeProducts ==
    /\ pc = "analyze"
    /\ \E call \in {analyze_products(products, user_preferences)} :
         /\ result' = call.returned
         /\ scored_products' = call.scored_products
    /\ last_tool' = "analyze_products"
    /\ pc' = "done"
    /\ UNCHANGED <<search_args, driver, url_params, products, user_preferences>>
    /\ UNCHANGED <<extract_vars, driver_vars, thread_vars, agent_vars>>

Next == SearchMercari \/ AnalyzeProducts

Spec == Init /\ [][Next]_vars

-----------------------------------------------------------------------------
(* A session with the module-level scraper: any sequence of search_mercari
   and get_product_details calls of execute_tool, and of direct
   scraper.search_products calls, one after the other. *)

InitSession ==
    /\ pc = "session"
    /\ NewScraper
    /\ NoExtraction
    /\ NoThreads
    /\ NoAgent
    /\ search_args = <<>>
    /\ url_params = EmptyDict
    /\ products = <<>>
    /\ user_preferences = <<>>
    /\ scored_products = <<>>
    /\ last_tool = "none"
    /\ result = EmptyDict

\* The outcomes that make a difference: how a start goes matters when there
\* is no driver, what the page holds matters when it gets parsed
StartChoices == IF driver = "live" THEN {"ok"} ELSE StartOutcomes

PageChoices(fetch, pages, none) == IF fetch = "ok" THEN pages ELSE {none}

\* execute_tool("search_mercari", args)
CallSearchMercari ==
    /\ pc = "session"
    /\ \E args \in SessionSearchCalls, start \in StartChoices, fetch \in FetchOutcomes :
       \E page \in PageChoices(fetch, SessionPages, NoPage) :
         /\ SearchMercariStep(args, start, fetch, page)
         /\ search_args' = <<args>>
    /\ UNCHANGED <<pc, products, user_preferences, scored_products>>
    /\ UNCHANGED <<thread_vars, agent_vars>>

\* execute_tool("get_product_details", {"product_url": product_url})
CallGetProductDetails ==
    /\ pc = "session"
    /\ \E product_url \in ProductUrls, start \in StartChoices, fetch \in FetchOutcomes :
       \E page \in PageChoices(fetch, DetailPages, EmptyDetailPage) :
         \E setup \in {_setup_driver(driver, start)} :
             /\ DriverAfter(setup, fetch, HrefString(product_url), DetailRaises(page))
             /\ result' = get_product_details(product_url, setup.raised, fetch, page)
             /\ search_args' = <<[product_url |-> product_url]>>
    /\ last_tool' = "get_product_details"
    /\ url_params' = EmptyDict
    /\ UNCHANGED <<pc, products, user_preferences, scored_products>>
    /\ UNCHANGED <<extract_vars, thread_vars, agent_vars>>

\* scraper.search_products(**args)
CallSearchProducts ==
    /\ pc = "session"
    /\ \E args \in SessionScraperCalls, start \in StartChoices, fetch \in FetchOutcomes :
       \E page \in PageChoices(fetch, ShortPages, NoPage) :
         \E setup \in {_setup_driver(driver, start)} :
             /\ DriverAfter(setup, fetch, SearchUrl(args), FALSE)
             /\ url_params' = IF setup.raised THEN EmptyDict ELSE SearchParams(args)
             /\ soup' = IF ~setup.raised /\ fetch = "ok" THEN page ELSE NoPage
             /\ limit' = IF ~setup.raised /\ fetch = "ok"
                           THEN Get(args, "max_results", MaxResultsDefault) ELSE 0
             /\ result' = MercariScraper_search_products(args, setup.raised, fetch, page)
             /\ search_args' = <<args>>
    /\ last_tool' = "search_products"
    /\ UNCHANGED <<pc, products, user_preferences, scored_products>>
    /\ UNCHANGED <<thread_vars, agent_vars>>

NextSession == CallSearchMercari \/ CallGetProductDetails \/ CallSearchProducts

SpecSession == InitSession /\ [][NextSession]_vars

-----------------------------------------------------------------------------
(* The extractor called directly: _extract_products(soup, max_results) on
   any page of the families above, limit standing for max_results. *)

InitExtract ==
    /\ pc = "extract"
    /\ NoThreads
    /\ NoAgent
    /\ \E f \in ExtractFamilies :
         /\ soup \in f.pages
         /\ limit \in f.counts
    /\ NewScraper
    /\ search_args = <<>>
    /\ url_params = EmptyDict
    /\ products = <<>>
    /\ user_preferences = <<>>
    /\ scored_products = <<>>
    /\ last_tool = "none"
    /\ result = <<>>

ExtractProducts ==
    /\ pc = "extract"
    /\ result' = _extract_products(soup, limit)
    /\ pc' = "extracted"
    /\ UNCHANGED <<search_args, driver, url_params, products, user_preferences,
                   scored_products, last_tool>>
    /\ UNCHANGED <<extract_vars, driver_vars, thread_vars, agent_vars>>

NextExtract == ExtractProducts

SpecExtract == InitExtract /\ [][NextExtract]_vars

-----------------------------------------------------------------------------
(* Properties *)

\* analyze_products has returned
Done == pc = "done"

Recs == result.recommendations

PriceOf(product) == Get(product, "price", 0)

IsSold(product) == Get(product, "is_sold", FALSE)

Min(a, b) == IF a < b THEN a ELSE b

BudgetGiven == "max_budget" \in DOMAIN Preferences(user_preferences)

\* The positions of the input left after the sold filter and its fallback
AfterSold ==
    LET unsold == { i \in 1..Len(products) : ~IsSold(products[i]) }
    IN  IF unsold = {} THEN 1..Len(products) ELSE unsold

NoProductsFailure ==
    [success |-> FALSE, error |-> "No products to analyze", recommendations |-> <<>>]

NoMatchFailure ==
    [success |-> FALSE, error |-> "No products match the budget criteria",
     recommendations |-> <<>>]

\* C1 (as claimed): for a non-empty list and any integer max_budget, every
\* recommended product has price <= max_budget, and when no product left
\* after the sold filter has price <= max_budget the call fails with
\* 'No products match the budget criteria'.
C1_BudgetRespected ==
    (Done /\ products # <<>> /\ BudgetGiven) =>
        LET max_budget == Preferences(user_preferences).max_budget
        IN  /\ \A r \in 1..Len(Recs) : PriceOf(Recs[r].product) <= max_budget
            /\ (\A i \in AfterSold : PriceOf(products[i]) > max_budget)
                  => result = NoMatchFailure

\* C2: when some input product is not sold, no recommended product is sold;
\* when every product of a non-empty input is sold and no budget is given,
\* the call succeeds with min(3, number of inputs) recommendations.
C2_SoldFilterFallback ==
    (Done /\ products # <<>>) =>
        /\ (\E i \in 1..Len(products) : ~IsSold(products[i]))
              => \A r \in 1..Len(Recs) : ~IsSold(Recs[r].product)
        /\ ((\A i \in 1..Len(products) : IsSold(products[i])) /\ ~BudgetGiven)
              => /\ result.success
                 /\ Len(Recs) = Min(3, Len(products))

\* C2's case: four products, all sold, no budget, three recommendations
C2_Witness ==
    /\ Done
    /\ Len(products) = 4
    /\ \A i \in 1..Len(products) : IsSold(products[i])
    /\ ~BudgetGiven
    /\ result.success
    /\ Len(Recs) = 3

\* C3: an empty product list gives the failure 'No products to analyze'
\* whatever user_preferences is, and that failure is not the budget failure.
C3_EmptyInputFailure ==
    (Done /\ products = <<>>) =>
        /\ result = NoProductsFailure
        /\ result # NoMatchFailure

\* C3's case: an empty list analyzed under a budget
C3_Witness ==
    /\ Done
    /\ products = <<>>
    /\ BudgetGiven
    /\ result.error = "No products to analyze"

\* The positions of the input that are analyzed: left after the sold filter
\* and after the budget filter, which a budget of 0 does not switch on
Remaining ==
    { i \in AfterSold :
        TruthyInt(Preferences(user_preferences), "max_budget")
          => PriceOf(products[i]) <= Preferences(user_preferences).max_budget }

Recommended(i) == \E r \in 1..Len(Recs) : Recs[r].product_ref = i

RankOf(i) == CHOOSE r \in 1..Len(Recs) : Recs[r].product_ref = i

\* product i is ranked before product j, as far as the result shows it
RankedBefore(i, j) == Recommended(j) => (Recommended(i) /\ RankOf(i) < RankOf(j))

\* product i comes before product j in the sorted list
SortedBefore(i, j) ==
    \E a, b \in 1..Len(scored_products) :
        a < b /\ scored_products[a].ref = i /\ scored_products[b].ref = j

PriceMode == Done /\ result.success /\ Priority(user_preferences) = "price"

\* name and url are present and non-empty
NamedAndLinked(product) ==
    /\ "name" \in DOMAIN product /\ product.name # "" /\ product.name # NoneStr
    /\ "url" \in DOMAIN product /\ product.url # ""

\* C4 (as claimed): with priority 'price', of any two analyzed products with
\* positive prices p < q the one priced p is ranked before the one priced q.
C4_CheaperFirst ==
    PriceMode =>
        \A i, j \in Remaining :
            (0 < PriceOf(products[i]) /\ PriceOf(products[i]) < PriceOf(products[j]))
                => (SortedBefore(i, j) /\ RankedBefore(i, j))

\* C4 (amended): with priority 'price', of any two analyzed products with
\* positive prices p < q that both have or both lack a non-empty name and
\* url (so that both or neither earn the 5-point bonus), the one priced p is
\* ranked before the one priced q.
C4_CheaperFirstSameBonus ==
    PriceMode =>
        \A i, j \in Remaining :
            (/\ 0 < PriceOf(products[i])
             /\ PriceOf(products[i]) < PriceOf(products[j])
             /\ NamedAndLinked(products[i]) = NamedAndLinked(products[j]))
                => (SortedBefore(i, j) /\ RankedBefore(i, j))

\* C4's case: four analyzed products, a cheaper one behind a dearer one in
\* the input and both with the bonus, and a positive-priced product left out
C4_Witness ==
    /\ PriceMode
    /\ Len(scored_products) = 4
    /\ PriceOf(scored_products[4].product) > 0
    /\ \E i, j \in Remaining :
         /\ j < i
         /\ 0 < PriceOf(products[i]) /\ PriceOf(products[i]) < PriceOf(products[j])
         /\ NamedAndLinked(products[i]) /\ NamedAndLinked(products[j])
         /\ Recommended(i)

\* The tier of a condition label as the claim gives it: the first marker, in
\* the order new, unused, no-visible-flaws/good, found in the lowercased label
ClaimTier(label) ==
    LET l == Lower(label)
    IN  IF Contains(l, MarkerShinpin) \/ Contains(l, MarkerNew) THEN 100
        ELSE IF Contains(l, MarkerMishiyou) \/ Contains(l, MarkerUnused) THEN 85
        ELSE IF Contains(l, MarkerKizu) \/ Contains(l, MarkerGood) THEN 70
        ELSE 50

DifferOnlyInCondition(p, q) ==
    /\ DOMAIN p = DOMAIN q
    /\ "condition" \in DOMAIN p
    /\ p.condition # q.condition
    /\ \A k \in DOMAIN p \ {"condition"} : p[k] = q[k]

ConditionMode == Done /\ result.success /\ Priority(user_preferences) = "condition"

\* C5: with priority 'condition', of two analyzed products that differ only
\* in their condition string the one in the higher tier (new 100 > unused 85
\* > no-visible-flaws/good 70 > other 50, first matching marker) is ranked
\* before the one in the lower tier.
C5_TierOrder ==
    ConditionMode =>
        \A i, j \in Remaining :
            (/\ DifferOnlyInCondition(products[i], products[j])
             /\ ClaimTier(products[i].condition) > ClaimTier(products[j].condition))
                => (SortedBefore(i, j) /\ RankedBefore(i, j))

\* C5's case: a label holding both the new and the unused marker, placed in
\* the input behind a product that differs only by its unused label, is
\* recommended
C5_Witness ==
    /\ ConditionMode
    /\ \E i, j \in Remaining :
         /\ j < i
         /\ DifferOnlyInCondition(products[i], products[j])
         /\ products[i].condition = CondNewUnused
         /\ products[j].condition = CondNearUnused
         /\ Recommended(i) /\ Recommended(j)

RECURSIVE SumOfPrices(_)
SumOfPrices(S) ==
    IF S = {} THEN 0
    ELSE LET i == CHOOSE x \in S : TRUE
         IN  PriceOf(products[i]) + SumOfPrices(S \ {i})

NotSpecified == <<"N", "o", "t", " ", "s", "p", "e", "c", "i", "f", "i", "e", "d">>

TierReason(tier) ==
    CASE tier = 100 -> "Excellent condition (new)"
      [] tier = 85 -> "Very good condition (unused)"
      [] tier = 70 -> "Good condition"
      [] tier = 50 -> "Acceptable condition"

\* The price score and reason of the claim: price against the mean price of
\* the analyzed products, sum / count
ClaimPriceScore(price, sum, count) ==
    IF price = 0 \/ sum = 0 THEN <<50, <<>> >>
    ELSE IF 5 * price * count < 4 * sum THEN <<100, <<"Great value - below average price">> >>
    ELSE IF 5 * price * count < 6 * sum THEN <<70, <<"Fair price">> >>
    ELSE <<50, <<>> >>

HasBonusReason(e) ==
    e.reasons # <<>> /\ e.reasons[Len(e.reasons)] = "Complete product information available"

\* score and reasons of a scored product with the bonus taken off
ScoreBeforeBonus(e) == IF HasBonusReason(e) THEN RatAddInt(e.score, -5) ELSE e.score

ReasonsBeforeBonus(e) ==
    IF HasBonusReason(e) THEN SubSeq(e.reasons, 1, Len(e.reasons) - 1) ELSE e.reasons

BalancedMode == Done /\ result.success /\ Priority(user_preferences) = "balanced"

\* C6: with priority 'balanced' (also the default), the score of each
\* analyzed product before the bonus is half its condition tier score plus
\* half its price score, the price score being 100 ('Great value - below
\* average price') for price/avgPrice < 0.8, 70 ('Fair price') for
\* 0.8 <= price/avgPrice < 1.2, else 50 without a reason, and 50 without a
\* reason when the price or avgPrice is 0, avgPrice being the mean price of
\* the analyzed products; the condition reason comes first.
C6_BalancedScore ==
    BalancedMode =>
        /\ { scored_products[k].ref : k \in 1..Len(scored_products) } = Remaining
        /\ \A k \in 1..Len(scored_products) :
             LET e == scored_products[k]
                 tier == ClaimTier(Get(e.product, "condition", NotSpecified))
                 ps == ClaimPriceScore(PriceOf(e.product), SumOfPrices(Remaining),
                                       Cardinality(Remaining))
             IN  /\ RatEq(ScoreBeforeBonus(e), Rat(tier + ps[1], 2))
                 /\ ReasonsBeforeBonus(e) = <<TierReason(tier)>> \o ps[2]

\* C6's case: prices 800 and 1200 around their mean 1000 (the ratios 0.8
\* and 1.2 themselves), one priority given and one defaulted
C6_Witness ==
    /\ BalancedMode
    /\ \E k, m \in 1..Len(scored_products) :
         /\ 5 * PriceOf(scored_products[k].product) * Cardinality(Remaining)
               = 4 * SumOfPrices(Remaining)
         /\ ReasonsBeforeBonus(scored_products[k]) = <<"Acceptable condition", "Fair price">>
         /\ 5 * PriceOf(scored_products[m].product) * Cardinality(Remaining)
               = 6 * SumOfPrices(Remaining)
         /\ ReasonsBeforeBonus(scored_products[m]) = <<"Excellent condition (new)">>
    /\ user_preferences = <<>>

\* name, price and url are present, non-empty and non-zero
ClaimComplete(product) ==
    /\ NamedAndLinked(product)
    /\ "price" \in DOMAIN product /\ product.price # 0

\* C7: in every priority mode a product gets exactly 5 more than its mode's
\* score, and 'Complete product information available' as its last reason,
\* if and only if its name, price and url are present, non-empty and
\* non-zero; otherwise it gets neither.
C7_CompletenessBonus ==
    (Done /\ result.success) =>
        \A k \in 1..Len(scored_products) :
            LET e == scored_products[k]
                base == PriorityScore(e.product, Priority(user_preferences),
                                      AvgPrice(products, AvailableProducts(products, user_preferences),
                                               Priority(user_preferences)))
            IN  IF ClaimComplete(e.product)
                  THEN /\ RatEq(e.score, RatAddInt(base.score, 5))
                       /\ e.reasons = Append(base.reasons, "Complete product information available")
                  ELSE /\ RatEq(e.score, base.score)
                       /\ e.reasons = base.reasons
                       /\ \A n \in 1..Len(e.reasons) :
                            e.reasons[n] # "Complete product information available"

\* C7's case: a complete product with the bonus beside one that lacks only
\* a non-empty url and has none
C7_Witness ==
    /\ Done /\ result.success
    /\ \E k, m \in 1..Len(scored_products) :
         /\ ClaimComplete(scored_products[k].product)
         /\ HasBonusReason(scored_products[k])
         /\ TruthyStr(scored_products[m].product, "name")
         /\ TruthyInt(scored_products[m].product, "price")
         /\ ~TruthyStr(scored_products[m].product, "url")
         /\ ~HasBonusReason(scored_products[m])

\* C8: the ranking is a stable sort on score, descending: the scores of the
\* recommendations do not increase with the rank, no analyzed product left
\* out scores more than the last recommendation, and analyzed products of
\* equal score keep the order they have in the input.
C8_StableDescendingSort ==
    (Done /\ result.success) =>
        /\ { scored_products[k].ref : k \in 1..Len(scored_products) } = Remaining
        /\ \A r, t \in 1..Len(Recs) : r < t => RatGeq(Recs[r].score, Recs[t].score)
        /\ \A k \in 1..Len(scored_products) :
             ~Recommended(scored_products[k].ref)
                => RatGeq(Recs[Len(Recs)].score, scored_products[k].score)
        /\ \A a, b \in 1..Len(scored_products) :
             (a < b /\ RatEq(scored_products[a].score, scored_products[b].score))
                => /\ scored_products[a].ref < scored_products[b].ref
                   /\ RankedBefore(scored_products[a].ref, scored_products[b].ref)

\* C8's case: the third and the fourth of four analyzed products tie, so
\* the input order decides which one is recommended, while a higher score
\* from further back in the input moved to the front
C8_Witness ==
    /\ Done /\ result.success
    /\ Len(scored_products) = 4
    /\ RatEq(scored_products[3].score, scored_products[4].score)
    /\ RatGt(scored_products[1].score, scored_products[3].score)
    /\ scored_products[1].ref > scored_products[3].ref

\* C9: on success there are exactly min(3, total_analyzed) recommendations,
\* ranked 1, 2, 3 in list order, total_analyzed is the number of products
\* left after the sold filter (with its fallback) and the budget filter, and
\* the recommended products are distinct elements of the input list.
C9_TopThree ==
    (Done /\ result.success) =>
        /\ result.total_analyzed = Cardinality(Remaining)
        /\ Len(Recs) = Min(3, result.total_analyzed)
        /\ \A r \in 1..Len(Recs) :
             /\ Recs[r].rank = r
             /\ Recs[r].product_ref \in 1..Len(products)
             /\ Recs[r].product = products[Recs[r].product_ref]
        /\ \A r, t \in 1..Len(Recs) : r # t => Recs[r].product_ref # Recs[t].product_ref

\* C9's case: four products, one filtered out as sold, three recommended of
\* which two are equal records at different places of the input
C9_Witness ==
    /\ Done /\ result.success
    /\ Len(products) = 4
    /\ result.total_analyzed = 3
    /\ Len(Recs) = 3
    /\ \E r, t \in 1..Len(Recs) : r # t /\ Recs[r].product = Recs[t].product

\* C10 (as claimed): whatever page the marketplace returns, a search with
\* max_price 20000 followed by analyze_products on its products with
\* priority 'balanced' and no max_budget recommends no product priced above
\* 20000.
C10_NothingAboveMaxPrice ==
    (/\ Done
     /\ search_args # <<>>
     /\ Get(search_args[1], "max_price", 0) = 20000
     /\ Priority(user_preferences) = "balanced"
     /\ ~BudgetGiven)
        => \A r \in 1..Len(Recs) : PriceOf(Recs[r].product) <= 20000

-----------------------------------------------------------------------------
(* Scraper calls running concurrently in one process, on the module-level
   scraper of src/tools.py.  Each call is a thread that goes through the
   statements of its method that touch the shared driver: the test of
   _setup_driver, the creation of the driver, driver.get(url), and the
   reading of driver.page_source, from which its result is extracted.  Each
   statement reads self.driver anew, so a call uses the driver that was
   assigned last.  The steps of the threads interleave in any order. *)

MaxThreads == 2

Threads == 1..MaxThreads

\* The urls the concurrent calls are made for: two searches and a detail
\* fetch
ThreadUrls ==
    { SearchUrl([keyword |-> "Nintendo Switch"]),
      SearchUrl([keyword |-> "Nintendo Switch", max_price |-> 20000]),
      "https://jp.mercari.com/item/m1" }

InitThreads ==
    /\ pc = "threads"
    /\ threads \in [Threads -> { [at |-> "setup", url |-> u, page_source |-> <<>>] :
                                   u \in ThreadUrls }]
    /\ drivers_created = 0
    /\ NoAgent
    /\ NewScraper
    /\ NoExtraction
    /\ search_args = <<>>
    /\ url_params = EmptyDict
    /\ products = <<>>
    /\ user_preferences = <<>>
    /\ scored_products = <<>>
    /\ last_tool = "none"
    /\ result = EmptyDict

ThreadFrame == <<pc, search_args, url_params, products, user_preferences, scored_products,
                 last_tool, result, extract_vars, navigated, history, agent_vars>>

\* _setup_driver: "if self.driver: return"
SetupDriverTest(t) ==
    /\ threads[t].at = "setup"
    /\ threads' = [threads EXCEPT ![t].at = IF driver = "live" THEN "get" ELSE "create"]
    /\ UNCHANGED <<driver, page_url, drivers_created>>
    /\ UNCHANGED ThreadFrame

\* _setup_driver: "self.driver = webdriver.Chrome(...)", a new browser on
\* its blank page
SetupDriverCreate(t) ==
    /\ threads[t].at = "create"
    /\ driver' = "live"
    /\ page_url' = ""
    /\ drivers_created' = drivers_created + 1
    /\ threads' = [threads EXCEPT ![t].at = "get"]
    /\ UNCHANGED ThreadFrame

\* "self.driver.get(url)"
DriverGet(t) ==
    /\ threads[t].at = "get"
    /\ page_url' = threads[t].url
    /\ threads' = [threads EXCEPT ![t].at = "page_source"]
    /\ UNCHANGED <<driver, drivers_created>>
    /\ UNCHANGED ThreadFrame

\* "BeautifulSoup(self.driver.page_source, 'html.parser')": the page the
\* result of the call is extracted from
PageSource(t) ==
    /\ threads[t].at = "page_source"
    /\ threads' = [threads EXCEPT ![t].at = "returned", ![t].page_source = <<page_url>>]
    /\ UNCHANGED <<driver, page_url, drivers_created>>
    /\ UNCHANGED ThreadFrame

NextThreads ==
    \E t \in Threads :
        SetupDriverTest(t) \/ SetupDriverCreate(t) \/ DriverGet(t) \/ PageSource(t)

SpecThreads == InitThreads /\ [][NextThreads]_vars

\* C19: of concurrent calls, each extracts its result from the page of its
\* own url, and the lazy test of _setup_driver lets at most one driver be
\* created
C19_CallsIndependent ==
    /\ \A t \in Threads :
         threads[t].at = "returned" => threads[t].page_source = <<threads[t].url>>
    /\ drivers_created <= 1

-----------------------------------------------------------------------------
(* src/agent.py: MercariAgentOpenAI.  chat(user_message) appends the user
   message to conversation_history, runs _agentic_loop and appends what the
   loop returned as the assistant's message.  The steps of a chat are the
   stretches of that code between its calls to the outside: one step per
   call of the model and one per tool call of a response.  The model answers
   each call with any response of Responses, or the call raises.  An
   exception that leaves chat is caught by the interactive loop of main,
   which goes on to read the next input.

   A message is the dict the code builds.  The content of a response is an
   Optional text, and the arguments of a tool call are an Optional dict:
   <<>> stands for a text json.loads does not accept. *)

max_iterations == 10

MaxTurns == 2      \* chat calls of a session

system_message == [role |-> "system", content |-> "You are a helpful AI shopping assistant"]

ApologyNoResponse == "I apologize, but I couldn't generate a response."

ApologyMaxSteps ==
    "I apologize, but I've reached the maximum number of processing steps. Please try simplifying your request."

UserMessages == {"Find me a Nintendo Switch"}

LoopGoesOn_inclusive(iteration) == iteration <= max_iterations

\* "while iteration < max_iterations"
LoopGoesOn(iteration) == iteration < max_iterations

\* "response_message.content or <apology>"
FinalResponse(response_message) ==
    IF response_message.content = <<>> \/ response_message.content = <<"">>
      THEN ApologyNoResponse
      ELSE response_message.content[1]

\* The message a tool call is answered with
ToolMessage(tool_call, function_result) ==
    [role |-> "tool", tool_call_id |-> tool_call.id, name |-> tool_call.name,
     content |-> function_result]

\* The message a response is kept as in messages
ResponseMessage(response_message) ==
    [role |-> "assistant", content |-> response_message.content,
     tool_calls |-> response_message.tool_calls]

\* The parameters of the tools: those a call must give and those it may give
ToolParameters ==
    [search_mercari |->
        [required |-> {"keyword"},
         optional |-> {"max_results", "min_price", "max_price", "sort"}],
     analyze_products |->
        [required |-> {"products"}, optional |-> {"user_preferences"}],
     get_product_details |->
        [required |-> {"product_url"}, optional |-> {}]]

\* tool(**tool_input) raises TypeError for a missing or an unexpected
\* keyword argument
BindingRaises(tool_name, tool_input) ==
    /\ tool_name \in DOMAIN ToolParameters
    /\ \/ ~(ToolParameters[tool_name].required \subseteq DOMAIN tool_input)
       \/ ~(DOMAIN tool_input \subseteq
              ToolParameters[tool_name].required \cup ToolParameters[tool_name].optional)

\* What raises in the body of the for loop: json.loads or the call of the
\* tool
ToolCallFails(tool_call) ==
    IF tool_call.arguments = <<>> THEN TRUE
    ELSE BindingRaises(tool_call.name, tool_call.arguments[1])

\* The pages the marketplace answers the agent's tools with
AgentPage == OnlyItemCells(<<GoodCell("m1"), GoodCell("m2"), GoodCell("m3")>>)

AgentProductUrl ==
    [origin |-> "https://jp.mercari.com", dir |-> "/item/", id |-> "m1", query |-> ""]

\* The tool calls the model asks for, id being the identifier the API gave
\* the call
SearchCall(id) ==
    [id |-> id, name |-> "search_mercari",
     arguments |-> <<[keyword |-> "Nintendo Switch", max_results |-> 2]>>]

AnalyzeCall(id) ==
    [id |-> id, name |-> "analyze_products",
     arguments |-> <<[products |-> _extract_products(AgentPage, 2),
                      user_preferences |-> [priority |-> "price"]]>>]

DetailsCall(id) ==
    [id |-> id, name |-> "get_product_details",
     arguments |-> <<[product_url |-> AgentProductUrl]>>]

UnknownCall(id) == [id |-> id, name |-> "buy_product", arguments |-> <<EmptyDict>>]

\* search_mercari has no condition parameter
UnboundCall(id) ==
    [id |-> id, name |-> "search_mercari",
     arguments |-> <<[keyword |-> "Nintendo Switch", condition |-> "new"]>>]

MalformedCall(id) == [id |-> id, name |-> "search_mercari", arguments |-> <<>>]

CallId(iteration, i) == "call_" \o ToString(iteration) \o "_" \o ToString(i)

\* The responses of the model to the call of an iteration: a text, no
\* text, an empty text, or tool calls with or without a text
Responses(iteration) ==
    { [content |-> <<"Here are my recommendations">>, tool_calls |-> <<>>],
      [content |-> <<>>, tool_calls |-> <<>>],
      [content |-> <<"">>, tool_calls |-> <<>>],
      [content |-> <<>>, tool_calls |-> <<SearchCall(CallId(iteration, 1))>>],
      [content |-> <<"Let me compare them">>,
       tool_calls |-> <<AnalyzeCall(CallId(iteration, 1)), DetailsCall(CallId(iteration, 2)),
                        UnknownCall(CallId(iteration, 3))>>],
      [content |-> <<>>,
       tool_calls |-> <<SearchCall(CallId(iteration, 1)), UnboundCall(CallId(iteration, 2))>>],
      [content |-> <<>>, tool_calls |-> <<MalformedCall(CallId(iteration, 1))>>] }

\* execute_tool(tool_name, tool_input) as a step of the program, for a call
\* that binds: the driver starts when there is none and the pages load
ExecuteTool(tool_name, tool_input) ==
    IF tool_name = "search_mercari" THEN
        /\ SearchMercariStep(tool_input, "ok", "ok", AgentPage)
        /\ search_args' = <<tool_input>>
        /\ UNCHANGED <<products, user_preferences, scored_products>>
    ELSE IF tool_name = "analyze_products" THEN
        /\ products' = tool_input.products
        /\ user_preferences' = IF "user_preferences" \in DOMAIN tool_input
                                 THEN <<tool_input.user_preferences>> ELSE <<>>
        /\ \E call \in {analyze_products(products', user_preferences')} :
             /\ result' = call.returned
             /\ scored_products' = call.scored_products
        /\ last_tool' = "analyze_products"
        /\ UNCHANGED <<search_args, driver, url_params>>
        /\ UNCHANGED <<extract_vars, driver_vars>>
    ELSE IF tool_name = "get_product_details" THEN
        /\ \E setup \in {_setup_driver(driver, "ok")} :
             /\ DriverAfter(setup, "ok", HrefString(tool_input.product_url), FALSE)
             /\ result' = get_product_details(tool_input.product_url, setup.raised, "ok",
                                              FullDetailPage)
        /\ search_args' = <<tool_input>>
        /\ last_tool' = "get_product_details"
        /\ url_params' = EmptyDict
        /\ UNCHANGED <<products, user_preferences, scored_products>>
        /\ UNCHANGED extract_vars
    ELSE
        /\ result' = [error |-> "Unknown tool: " \o tool_name]
        /\ last_tool' = tool_name
        /\ UNCHANGED <<search_args, driver, url_params, products, user_preferences,
                       scored_products>>
        /\ UNCHANGED <<extract_vars, driver_vars>>

ScraperFrame == <<search_args, driver, url_params, products, user_preferences,
                  scored_products, last_tool, result, extract_vars, driver_vars>>

InitAgent ==
    /\ pc = "idle"
    /\ NoAgent
    /\ NewScraper
    /\ NoExtraction
    /\ NoThreads
    /\ search_args = <<>>
    /\ url_params = EmptyDict
    /\ products = <<>>
    /\ user_preferences = <<>>
    /\ scored_products = <<>>
    /\ last_tool = "none"
    /\ result = EmptyDict

\* chat, up to the first test of the while loop
Chat ==
    /\ pc = "idle"
    /\ turns < MaxTurns
    /\ \E user_message \in UserMessages :
         conversation_history' =
             Append(conversation_history, [role |-> "user", content |-> user_message])
    /\ loop' = [NoLoop EXCEPT !.messages = <<system_message>> \o conversation_history']
    /\ chat_result' = EmptyDict
    /\ turns' = turns + 1
    /\ pc' = "model"
    /\ UNCHANGED <<ScraperFrame, thread_vars>>

\* An iteration whose response carries tool calls, up to the first of them
ModelAsksForTools ==
    /\ pc = "model"
    /\ LoopGoesOn(loop.iteration)
    /\ \E response_message \in Responses(loop.iteration + 1) :
         /\ response_message.tool_calls # <<>>
         /\ loop' = [iteration |-> loop.iteration + 1,
                     model_calls |-> loop.model_calls + 1,
                     messages |-> Append(loop.messages, ResponseMessage(response_message)),
                     response |-> <<response_message>>,
                     pending |-> response_message.tool_calls]
    /\ pc' = "tools"
    /\ UNCHANGED <<conversation_history, chat_result, turns>>
    /\ UNCHANGED <<ScraperFrame, thread_vars>>

\* An iteration whose response carries no tool call: the loop returns, and
\* chat appends what it returned and returns it
ModelAnswers ==
    /\ pc = "model"
    /\ LoopGoesOn(loop.iteration)
    /\ \E response_message \in Responses(loop.iteration + 1) :
         /\ response_message.tool_calls = <<>>
         /\ loop' = [loop EXCEPT !.iteration = loop.iteration + 1,
                                 !.model_calls = loop.model_calls + 1,
                                 !.response = <<response_message>>]
         /\ chat_result' = [returned |-> FinalResponse(response_message)]
    /\ conversation_history' =
           Append(conversation_history,
                  [role |-> "assistant", content |-> chat_result'.returned])
    /\ pc' = "idle"
    /\ UNCHANGED turns
    /\ UNCHANGED <<ScraperFrame, thread_vars>>

\* An iteration whose call of the model raises: the exception leaves the
\* loop and chat
ModelRaises ==
    /\ pc = "model"
    /\ LoopGoesOn(loop.iteration)
    /\ loop' = [loop EXCEPT !.iteration = loop.iteration + 1,
                            !.model_calls = loop.model_calls + 1,
                            !.response = <<>>]
    /\ chat_result' = [raised |-> TRUE]
    /\ pc' = "idle"
    /\ UNCHANGED <<conversation_history, turns>>
    /\ UNCHANGED <<ScraperFrame, thread_vars>>

\* The while loop ends: the loop returns its last line
LoopExhausted ==
    /\ pc = "model"
    /\ ~LoopGoesOn(loop.iteration)
    /\ chat_result' = [returned |-> ApologyMaxSteps]
    /\ conversation_history' =
           Append(conversation_history,
                  [role |-> "assistant", content |-> chat_result'.returned])
    /\ pc' = "idle"
    /\ UNCHANGED <<loop, turns>>
    /\ UNCHANGED <<ScraperFrame, thread_vars>>

\* The body of the for loop for the next tool call of the response, and
\* after the last one the "continue"
ToolCallAnswered ==
    /\ pc = "tools"
    /\ ~ToolCallFails(Head(loop.pending))
    /\ ExecuteTool(Head(loop.pending).name, Head(loop.pending).arguments[1])
    /\ loop' = [loop EXCEPT !.messages = Append(@, ToolMessage(Head(loop.pending), result')),
                            !.pending = Tail(@)]
    /\ pc' = IF Tail(loop.pending) = <<>> THEN "model" ELSE "tools"
    /\ UNCHANGED <<conversation_history, chat_result, turns>>
    /\ UNCHANGED thread_vars

\* The body of the for loop raises: the exception leaves the loop and chat
ToolCallRaises ==
    /\ pc = "tools"
    /\ ToolCallFails(Head(loop.pending))
    /\ chat_result' = [raised |-> TRUE]
    /\ pc' = "idle"
    /\ UNCHANGED <<conversation_history, loop, turns>>
    /\ UNCHANGED <<ScraperFrame, thread_vars>>

\* reset_conversation, called by main between two chat calls: nothing of
\* the chat call before it is left
ResetConversation ==
    /\ pc = "idle"
    /\ conversation_history' = <<>>
    /\ loop' = NoLoop
    /\ chat_result' = EmptyDict
    /\ UNCHANGED <<pc, turns>>
    /\ UNCHANGED <<ScraperFrame, thread_vars>>

NextAgent ==
    \/ Chat
    \/ ModelAsksForTools
    \/ ModelAnswers
    \/ ModelRaises
    \/ LoopExhausted
    \/ ToolCallAnswered
    \/ ToolCallRaises
    \/ ResetConversation

SpecAgent == InitAgent /\ [][NextAgent]_vars

-----------------------------------------------------------------------------
(* Properties of the extractor, under SpecExtract *)

\* _extract_products has returned
Extracted == pc = "extracted"

\* C11: price_display is a function of price: two emitted records with the
\* same price have the same price_display, which is the grouped price after
\* the yen sign, or "N/A"
C11_PriceDisplayFunction ==
    Extracted =>
        \A i \in 1..Len(result) :
            /\ result[i].price_display \in {Yen \o FormatThousands(result[i].price), "N/A"}
            /\ \A j \in 1..Len(result) :
                 result[i].price = result[j].price
                     => result[i].price_display = result[j].price_display

\* C12: every emitted product has a name that is a non-empty string
C12_NameNonEmpty ==
    Extracted => \A i \in 1..Len(result) : result[i].name # NoneStr /\ result[i].name # ""

\* The item node has a link with an href and its extraction does not raise
ExtractionSucceeds(item) ==
    /\ item.link # <<>>
    /\ HrefString(item.link[1]) # ""
    /\ ~_extract_product_info(item).raised

\* The first n of the nodes
FirstNodes(nodes, n) == SubSeq(nodes, 1, Min(n, Len(nodes)))

\* The nodes of the slice [:n]: the first n, and for a negative n all but
\* the last -n
SlicedNodes(nodes, n) == IF n >= 0 THEN FirstNodes(nodes, n) ELSE FirstNodes(nodes, Len(nodes) + n)

\* The output is the records of the nodes that succeed, in their order, each
\* with a non-empty url
EmitsSucceeding(nodes) ==
    LET kept == SelectSeq(nodes, ExtractionSucceeds)
    IN  /\ Len(result) = Len(kept)
        /\ \A k \in 1..Len(kept) :
             /\ result[k] = _extract_product_info(kept[k]).product[1]
             /\ result[k].url # ""

C13_WitnessNegative ==
    /\ Extracted
    /\ limit = -1
    /\ Len(soup.item_cell) = 3
    /\ Len(result) = 2

\* The match set the claim says is used: that of the first strategy, in the
\* order item-cell, ItemThumbnail, mer-item-thumbnail, that matches anything
FirstMatching(page) ==
    IF page.item_cell # <<>> THEN page.item_cell
    ELSE IF page.item_thumbnail # <<>> THEN page.item_thumbnail
    ELSE IF page.mer_item_thumbnail # <<>> THEN page.mer_item_thumbnail
    ELSE <<>>

\* C14: only the nodes of the first strategy with a non-empty match set are
\* extracted, never those of a later strategy, and a page on which no
\* strategy matches gives the empty list
C14_FirstNonEmptyStrategy ==
    Extracted =>
        /\ EmitsSucceeding(SlicedNodes(FirstMatching(soup), limit))
        /\ (soup.item_cell = <<>> /\ soup.item_thumbnail = <<>>
              /\ soup.mer_item_thumbnail = <<>>) => result = <<>>

\* The second strategy is used although the third matches too
C14_Witness ==
    /\ Extracted
    /\ soup.item_cell = <<>>
    /\ Len(soup.item_thumbnail) = 1
    /\ Len(soup.mer_item_thumbnail) = 1
    /\ soup.item_thumbnail # soup.mer_item_thumbnail
    /\ limit = MaxResultsDefault
    /\ Len(result) = 1
    /\ result[1].id = soup.item_thumbnail[1].link[1].id

-----------------------------------------------------------------------------
(* Properties of the scraper's calls, under SpecSession *)

\* The arguments of the last call
LastArgs == search_args[1]

\* An exception left the last call
Propagated == "raised" \in DOMAIN result

\* The last call was a direct scraper.search_products that built its request
BuiltRequest == last_tool = "search_products" /\ ~Propagated

WithoutCondition(args) == [k \in DOMAIN args \ {"condition"} |-> args[k]]

\* The five-entry table of the claim, a label being looked up in lowercase
ClaimConditionCode(label) ==
    LET l == Lower(label)
    IN  CASE l = <<"n", "e", "w">> -> "1"
          [] l = <<"l", "i", "k", "e", "_", "n", "e", "w">> -> "2"
          [] l = <<"g", "o", "o", "d">> -> "3"
          [] l = <<"a", "c", "c", "e", "p", "t", "a", "b", "l", "e">> -> "4"
          [] l = <<"p", "o", "o", "r">> -> "5"
          [] OTHER -> "none"

\* C15: with a condition label outside the table search_products builds
\* the url and the query parameters it builds without a condition, and does
\* not raise because of the label; a label of the table gives its code 1..5
C15_UnknownConditionUnaffected ==
    (last_tool = "search_products" /\ "condition" \in DOMAIN LastArgs) =>
        IF ClaimConditionCode(LastArgs.condition) = "none"
          THEN /\ Propagated => ~navigated
               /\ BuiltRequest =>
                    /\ url_params = SearchParams(WithoutCondition(LastArgs))
                    /\ page_url \in {SearchUrl(WithoutCondition(LastArgs)), ""}
          ELSE BuiltRequest =>
                    /\ "item_condition_id" \in DOMAIN url_params
                    /\ url_params.item_condition_id = ClaimConditionCode(LastArgs.condition)

\* C16: a search_mercari call with an empty keyword fails with an error, and
\* neither builds a request nor sends the driver to a page
C16_EmptyKeywordRejected ==
    (last_tool = "search_mercari" /\ LastArgs.keyword = "") =>
        /\ result.success = FALSE
        /\ "error" \in DOMAIN result
        /\ url_params = EmptyDict
        /\ ~navigated

\* The fault of the last call
LastFault == history[Len(history)]

\* C17: after a search_mercari or get_product_details call with a failure
\* at the level of the page (the driver does not start, driver.get raises,
\* the wait times out, the parsing raises) no exception has left the call:
\* the search returned an empty products list, the detail fetch a null
\* product with success false, and the session goes on
C17_PageFailureContained ==
    (last_tool \in {"search_mercari", "get_product_details"} /\ LastFault # "none") =>
        /\ ~Propagated
        /\ last_tool = "search_mercari" => result.products = <<>>
        /\ last_tool = "get_product_details" =>
             (result.product = <<>> /\ result.success = FALSE)
        /\ pc = "session"

\* A detail fetch succeeds right after a call in which the driver failed
\* to start
C17_Witness ==
    /\ Len(history) = 2
    /\ history[1] = "fault"
    /\ history[2] = "none"
    /\ last_tool = "get_product_details"
    /\ result.success
    /\ result.product # <<>>

\* A detail fetch whose page made int() raise returned a null product
C17_WitnessParse ==
    /\ last_tool = "get_product_details"
    /\ LastFault = "parse_raises"
    /\ result.success = FALSE
    /\ result.product = <<>>

\* C18: search_mercari returns at most min(max_results, 50) products (none
\* when that is negative), never more than 50, and total_results is the
\* length of the products list
C18_AtMostMaxResults ==
    last_tool = "search_mercari" =>
        /\ \/ Len(result.products) = 0
           \/ Len(result.products)
                <= Min(Get(LastArgs, "max_results", MaxResultsDefault), MaxResultsCap)
        /\ Len(result.products) <= MaxResultsCap
        /\ "total_results" \in DOMAIN result => result.total_results = Len(result.products)

-----------------------------------------------------------------------------
(* Properties of the agentic loop, under SpecAgent *)

\* The loop of the last chat call has returned
LoopReturned == pc = "idle" /\ "returned" \in DOMAIN chat_result

\* The loop of the running chat call is at the test of its while loop or in
\* the for loop over the tool calls of a response
LoopRunning == pc \in {"model", "tools"}

\* The responses kept in messages, all of which carried tool calls
ToolResponses(messages) ==
    { i \in 1..Len(messages) : "tool_calls" \in DOMAIN messages[i] }

\* The messages the loop has added to those it started from
Added(messages) ==
    SubSeq(messages, Len(conversation_history) + 2, Len(messages))

\* added is a sequence of responses with tool calls, each followed by one
\* tool message per tool call, with the tool call's id and name, in the
\* order of the calls; the calls in pending are those of the last response
\* not answered yet
RECURSIVE Answered(_, _)
Answered(added, pending) ==
    IF added = <<>> THEN pending = <<>>
    ELSE /\ "tool_calls" \in DOMAIN added[1]
         /\ LET tool_calls == added[1].tool_calls
                rest == Tail(added)
                answers == Min(Len(tool_calls), Len(rest))
            IN  /\ tool_calls # <<>>
                /\ \A i \in 1..answers :
                     /\ rest[i].role = "tool"
                     /\ rest[i].tool_call_id = tool_calls[i].id
                     /\ rest[i].name = tool_calls[i].name
                /\ IF Len(rest) >= Len(tool_calls)
                     THEN Answered(SubSeq(rest, answers + 1, Len(rest)), pending)
                     ELSE pending = SubSeq(tool_calls, answers + 1, Len(tool_calls))

\* The loop never calls the model more than max_iterations times, and goes
\* from the messages it started with to blocks of a response and its answers
LoopDiscipline ==
    /\ loop.model_calls <= max_iterations
    /\ LoopRunning =>
         /\ SubSeq(loop.messages, 1, Len(conversation_history) + 1)
              = <<system_message>> \o conversation_history
         /\ Answered(Added(loop.messages), loop.pending)
         /\ pc = "model" => loop.pending = <<>>
         /\ Cardinality(ToolResponses(loop.messages)) = loop.model_calls

\* What the loop returns when every response carried tool calls
ReturnsMaxSteps ==
    /\ loop.model_calls = max_iterations
    /\ Cardinality(ToolResponses(loop.messages)) = max_iterations
    /\ chat_result.returned = ApologyMaxSteps

\* C20 as stated: the loop makes at most max_iterations model calls; it
\* returns the text of the first response without tool calls, and the fixed
\* maximum-steps message when all max_iterations responses carried tool
\* calls; before each further model call every tool call of a response is
\* answered by one tool message with its id, in order
C20_ReturnsModelText ==
    /\ LoopDiscipline
    /\ LoopReturned =>
         IF loop.response[1].tool_calls = <<>>
           THEN /\ Cardinality(ToolResponses(loop.messages)) = loop.model_calls - 1
                /\ loop.response[1].content = <<chat_result.returned>>
           ELSE ReturnsMaxSteps

\* C20 as the code has it: the same, but a response without tool calls
\* whose text is None or empty makes the loop return the fixed
\* could-not-generate message instead of the text
C20_ReturnsTextOrApology ==
    /\ LoopDiscipline
    /\ LoopReturned =>
         IF loop.response[1].tool_calls = <<>>
           THEN /\ Cardinality(ToolResponses(loop.messages)) = loop.model_calls - 1
                /\ chat_result.returned =
                     IF loop.response[1].content \in {<<>>, <<"">>}
                       THEN ApologyNoResponse
                       ELSE loop.response[1].content[1]
           ELSE ReturnsMaxSteps

\* The loop returned the maximum-steps message after max_iterations
\* responses whose tool calls were all answered
C20_Witness ==
    /\ LoopReturned
    /\ loop.response[1].tool_calls # <<>>
    /\ chat_result.returned = ApologyMaxSteps
    /\ Cardinality(ToolResponses(loop.messages)) = max_iterations

\* The loop returned the text of a response that followed answered tool
\* calls
C20_WitnessText ==
    /\ LoopReturned
    /\ loop.model_calls > 1
    /\ loop.response[1] = [content |-> <<"Here are my recommendations">>, tool_calls |-> <<>>]
    /\ chat_result.returned = "Here are my recommendations"

-----------------------------------------------------------------------------
(* Properties of the conversation history, under SpecAgent *)

\* No chat call is in progress
NoChatInProgress == pc = "idle"

\* The history holds only the user and assistant messages of chat, none of
\* the tool-call responses and tool messages of the loop
HistoryOfUserAndAssistant ==
    \A i \in 1..Len(conversation_history) :
        /\ DOMAIN conversation_history[i] = {"role", "content"}
        /\ conversation_history[i].role \in {"user", "assistant"}

\* user, assistant, user, assistant, ...
HistoryAlternates ==
    \A i \in 1..Len(conversation_history) :
        conversation_history[i].role = IF i % 2 = 1 THEN "user" ELSE "assistant"

\* C21: conversation_history holds only user and assistant messages,
\* strictly alternating and starting with user, and its length is even
\* whenever no chat call is in progress, also after a chat call in which the
\* model call or a tool execution raised
C21_HistoryAlternatesEvenLength ==
    /\ HistoryOfUserAndAssistant
    /\ HistoryAlternates
    /\ NoChatInProgress => Len(conversation_history) % 2 = 0

\* reset_conversation leaves the history empty
ResetLeavesEmpty == [][ResetConversation => conversation_history' = <<>>]_vars

====
